---------------------------- MODULE Spec2Model ----------------------------
(***************************************************************************)
(* Model of fm-bindings' LanguageModelSession (src/src/session.rs): the    *)
(* blocking bridge response(), the streaming bridge stream_response(),     *)
(* cancel_stream(), and the six extern "C" callbacks the foreign side      *)
(* invokes with the boxed handle.                                          *)
(*                                                                         *)
(* A C string is a sequence of bytes 1..255 behind a pointer that may be   *)
(* null; a Rust String is a sequence of Unicode scalar values.  The        *)
(* conversion between them is CStr::to_string_lossy, modelled by Lossy.    *)
(***************************************************************************)
EXTENDS Integers, Sequences, FiniteSets, TLC

(***************************************************************************)
(* Bounds of the model.                                                    *)
(***************************************************************************)
MaxChunks == 3      \* chunk callbacks the foreign side delivers per call
MaxSpurious == 1    \* spurious condition-variable wakeups per call
MaxCancels == 1     \* calls of cancel_stream()
MaxIdleCancels == 3 \* calls of cancel_stream() where cancellations are studied
MaxNewCalls == 4    \* calls of LanguageModelSession::new()
MaxSessions == 5    \* sessions made, by new() or by clone()
MaxNullContext == 2 \* chunk callbacks invoked with a null context pointer

(***************************************************************************)
(* Calling threads.  Every variable is a function over AllCallers; a       *)
(* specification lets the callers of its own set act.                      *)
(***************************************************************************)
AllCallers == {1, 2}
Callers == {1}

(***************************************************************************)
(* Pointers to C strings.                                                  *)
(***************************************************************************)
NullPtr == [null |-> TRUE, bytes |-> <<>>]
CStr(b) == [null |-> FALSE, bytes |-> b]

\* U+FFFD, what to_string_lossy puts in place of an invalid sequence.
REPLACEMENT_CHARACTER == 65533

\* "not available", the marker response() and stream_response() look for.
Marker == <<110, 111, 116, 32, 97, 118, 97, 105, 108, 97, 98, 108, 101>>

(***************************************************************************)
(* Inputs.                                                                 *)
(***************************************************************************)
\* "", "\0", "H\0i", "Hi"
PromptInputs ==
    { <<>>, <<0>>, <<72, 0, 105>>, <<72, 105>> }

\* null, "A", e-acute (2 bytes), a truncated 2-byte sequence
ChunkInputs ==
    { NullPtr, CStr(<<65>>), CStr(<<195, 169>>), CStr(<<195>>) }

\* null, "not available", "M: not available.", "Not available",
\* an invalid byte followed by "not"
ErrorInputs ==
    { NullPtr,
      CStr(Marker),
      CStr(<<77, 58, 32>> \o Marker \o <<46>>),
      CStr(<<78>> \o Tail(Marker)),
      CStr(<<255, 110, 111, 116>>) }

(***************************************************************************)
(* CStr::to_string_lossy: UTF-8 decoding that replaces every maximal       *)
(* invalid sequence by U+FFFD.                                             *)
(***************************************************************************)
utf8_char_width(b) ==
    IF b < 128 THEN 1
    ELSE IF b >= 194 /\ b <= 223 THEN 2
    ELSE IF b >= 224 /\ b <= 239 THEN 3
    ELSE IF b >= 240 /\ b <= 244 THEN 4
    ELSE 0

safe_get(s, i) == IF i <= Len(s) THEN s[i] ELSE 0

IsContinuation(b) == b >= 128 /\ b <= 191

\* The second byte a 3-byte or 4-byte sequence's lead admits.
SecondByteOk(b, b2) ==
    CASE b = 224 -> b2 >= 160 /\ b2 <= 191
      [] b >= 225 /\ b <= 236 -> b2 >= 128 /\ b2 <= 191
      [] b = 237 -> b2 >= 128 /\ b2 <= 159
      [] b >= 238 /\ b <= 239 -> b2 >= 128 /\ b2 <= 191
      [] b = 240 -> b2 >= 144 /\ b2 <= 191
      [] b >= 241 /\ b <= 243 -> b2 >= 128 /\ b2 <= 191
      [] b = 244 -> b2 >= 128 /\ b2 <= 143
      [] OTHER -> FALSE

\* One step of the decoder at position i: whether a scalar value was
\* decoded, the bytes consumed, and the value.
DecodeAt(s, i) ==
    LET b  == s[i]
        b2 == safe_get(s, i + 1)
        b3 == safe_get(s, i + 2)
        b4 == safe_get(s, i + 3)
        w  == utf8_char_width(b)
        Bad(n) == [ok |-> FALSE, n |-> n, cp |-> REPLACEMENT_CHARACTER]
    IN  CASE w = 1 -> [ok |-> TRUE, n |-> 1, cp |-> b]
          [] w = 2 ->
                IF ~IsContinuation(b2) THEN Bad(1)
                ELSE [ok |-> TRUE, n |-> 2,
                      cp |-> (b - 192) * 64 + (b2 - 128)]
          [] w = 3 ->
                IF ~SecondByteOk(b, b2) THEN Bad(1)
                ELSE IF ~IsContinuation(b3) THEN Bad(2)
                ELSE [ok |-> TRUE, n |-> 3,
                      cp |-> (b - 224) * 4096 + (b2 - 128) * 64 + (b3 - 128)]
          [] w = 4 ->
                IF ~SecondByteOk(b, b2) THEN Bad(1)
                ELSE IF ~IsContinuation(b3) THEN Bad(2)
                ELSE IF ~IsContinuation(b4) THEN Bad(3)
                ELSE [ok |-> TRUE, n |-> 4,
                      cp |-> (b - 240) * 262144 + (b2 - 128) * 4096
                             + (b3 - 128) * 64 + (b4 - 128)]
          [] OTHER -> Bad(1)

\* The scalar values decoded from position 1 on.
Lossy(bytes) ==
    LET from[i \in 1..(Len(bytes) + 1)] ==
            IF i > Len(bytes) THEN <<>>
            ELSE LET d == DecodeAt(bytes, i)
                 IN  <<d.cp>> \o from[i + d.n]
    IN  from[1]

(***************************************************************************)
(* str::contains: the needle is looked for at every position in turn.      *)
(***************************************************************************)
Contains(hay, needle) ==
    LET last == Len(hay) - Len(needle) + 1
        at[i \in 1..(IF last < 1 THEN 1 ELSE last + 1)] ==
            IF i > last THEN FALSE
            ELSE IF SubSeq(hay, i, i + Len(needle) - 1) = needle THEN TRUE
            ELSE at[i + 1]
    IN  at[1]

(***************************************************************************)
(* Results.                                                                *)
(***************************************************************************)
OkSession == [tag |-> "Ok", kind |-> "Session", text |-> <<>>, msg |-> <<>>, note |-> ""]
NoResult == [tag |-> "none", kind |-> "", text |-> <<>>, msg |-> <<>>, note |-> ""]
OkText(text) == [tag |-> "Ok", kind |-> "", text |-> text, msg |-> <<>>, note |-> ""]
OkUnit == [tag |-> "Ok", kind |-> "", text |-> <<>>, msg |-> <<>>, note |-> ""]
ErrInvalidInput(note) ==
    [tag |-> "Err", kind |-> "InvalidInput", text |-> <<>>, msg |-> <<>>, note |-> note]
ErrModelNotAvailable ==
    [tag |-> "Err", kind |-> "ModelNotAvailable", text |-> <<>>, msg |-> <<>>, note |-> ""]
ErrGenerationError(msg) ==
    [tag |-> "Err", kind |-> "GenerationError", text |-> <<>>, msg |-> msg, note |-> ""]
ErrPoisonError ==
    [tag |-> "Err", kind |-> "PoisonError", text |-> <<>>, msg |-> <<>>, note |-> ""]

\* The error check both bridges make after the wait.
\* Fault: the marker is looked for at the start of the message only.
ClassifyNarrow(error) ==
    IF Len(error) >= Len(Marker) /\ SubSeq(error, 1, Len(Marker)) = Marker
    THEN ErrModelNotAvailable
    ELSE ErrGenerationError(error)

Classify(error) ==
    IF Contains(error, Marker)
    THEN ErrModelNotAvailable
    ELSE ErrGenerationError(error)

(***************************************************************************)
(* State.                                                                  *)
(***************************************************************************)
VARIABLES
    pc,         \* where each calling thread is
    call,       \* the call each thread makes: [kind, prompt]
    cell,       \* ResponseState / StreamState: [text, finished, error]
    mutex,      \* the cell's lock: "free", "caller" or "poisoned"
    handle,     \* the boxed handle: [state, intoRaw, fromRaw, frees]
    fpc,        \* where the foreign side is with each call
    delivered,  \* the chunk pointers the foreign side passed, in order
    sinkLog,    \* the texts the sink was invoked with, in order
    terminal,   \* the terminal callbacks the foreign side invoked, in order
    result,     \* what the call returned
    spurious,   \* spurious wakeups so far
    stopCalls,  \* calls of fm_stop_stream so far
    cancelAt,   \* cancel_stream() came after that many chunk callbacks and
                \* sink invocations of the active stream
    crashed,    \* the process was brought down by undefined behaviour
    available,  \* what fm_check_availability() returns at this moment
    sessions,   \* the LanguageModelSession values made: [probe, via]
    newCalls,   \* the calls of new() so far: [probe, result]
    nullContext \* chunk callbacks invoked with a null context pointer

\* The sessions and what made them, and the callbacks that came with no
\* context: what no step of a call changes.
svars == <<available, sessions, newCalls, nullContext>>

vars == <<pc, call, cell, mutex, handle, fpc, delivered, sinkLog, terminal,
          result, spurious, stopCalls, cancelAt, crashed, available,
          sessions, newCalls, nullContext>>

NoCall == [kind |-> "none", prompt |-> <<>>]
DefaultState == [text |-> <<>>, finished |-> FALSE, error |-> <<>>]
NoHandle == [state |-> "none", intoRaw |-> 0, fromRaw |-> 0, frees |-> 0]

Init ==
    /\ pc = [t \in AllCallers |-> "idle"]
    /\ call = [t \in AllCallers |-> NoCall]
    /\ cell = [t \in AllCallers |-> DefaultState]
    /\ mutex = [t \in AllCallers |-> "free"]
    /\ handle = [t \in AllCallers |-> NoHandle]
    /\ fpc = [t \in AllCallers |-> "none"]
    /\ delivered = [t \in AllCallers |-> <<>>]
    /\ sinkLog = [t \in AllCallers |-> <<>>]
    /\ terminal = [t \in AllCallers |-> <<>>]
    /\ result = [t \in AllCallers |-> NoResult]
    /\ spurious = [t \in AllCallers |-> 0]
    /\ stopCalls = 0
    /\ cancelAt = [t \in AllCallers |-> <<>>]
    /\ crashed = FALSE
    /\ available = TRUE
    /\ sessions = <<[probe |-> TRUE, via |-> "new"]>>
    /\ newCalls = <<[probe |-> TRUE, result |-> OkSession]>>
    /\ nullContext = 0


(***************************************************************************)
(* The calling thread: response() and stream_response().                   *)
(***************************************************************************)
\* Fault: only the first byte is tested.
HasNulFirst(prompt) == Len(prompt) > 0 /\ prompt[1] = 0

\* CString::new fails on an interior 0 byte.
HasNul(prompt) == \E i \in 1..Len(prompt) : prompt[i] = 0

\* Box::into_raw: the boxed handle leaves for the foreign side.
IntoRaw(h) == [h EXCEPT !.state = "foreign", !.intoRaw = @ + 1]

\* Fault: the call asks the probe first and fails when it answers false.
EnterProbing(t, kind, prompt) ==
    /\ ~crashed
    /\ pc[t] = "idle"
    /\ call' = [call EXCEPT ![t] = [kind |-> kind, prompt |-> prompt]]
    /\ IF prompt = <<>>
       THEN /\ result' = [result EXCEPT ![t] = ErrInvalidInput("Prompt cannot be empty")]
            /\ pc' = [pc EXCEPT ![t] = "returned"]
            /\ UNCHANGED <<cell, handle, fpc>>
       ELSE IF HasNul(prompt)
       THEN /\ result' = [result EXCEPT ![t] = ErrInvalidInput("Prompt contains null byte")]
            /\ pc' = [pc EXCEPT ![t] = "returned"]
            /\ UNCHANGED <<cell, handle, fpc>>
       ELSE IF ~available
       THEN /\ result' = [result EXCEPT ![t] = ErrModelNotAvailable]
            /\ pc' = [pc EXCEPT ![t] = "returned"]
            /\ UNCHANGED <<cell, handle, fpc>>
       ELSE /\ cell' = [cell EXCEPT ![t] = DefaultState]
            /\ handle' = [handle EXCEPT ![t] = IntoRaw(@)]
            /\ fpc' = [fpc EXCEPT ![t] = "running"]
            /\ pc' = [pc EXCEPT ![t] = "in_ffi"]
            /\ UNCHANGED result
    /\ UNCHANGED <<mutex, delivered, sinkLog, terminal, spurious, stopCalls,
                   cancelAt, crashed>>
    /\ UNCHANGED svars

\* Validation, the cell, the boxed handle and the foreign call; the same in
\* both bridges but for the entry point.
Enter(t, kind, prompt) ==
    /\ ~crashed
    /\ pc[t] = "idle"
    /\ call' = [call EXCEPT ![t] = [kind |-> kind, prompt |-> prompt]]
    /\ IF prompt = <<>>
       THEN /\ result' = [result EXCEPT ![t] = ErrInvalidInput("Prompt cannot be empty")]
            /\ pc' = [pc EXCEPT ![t] = "returned"]
            /\ UNCHANGED <<cell, handle, fpc>>
       ELSE IF HasNul(prompt)
       THEN /\ result' = [result EXCEPT ![t] = ErrInvalidInput("Prompt contains null byte")]
            /\ pc' = [pc EXCEPT ![t] = "returned"]
            /\ UNCHANGED <<cell, handle, fpc>>
       ELSE /\ cell' = [cell EXCEPT ![t] = DefaultState]
            /\ handle' = [handle EXCEPT ![t] = IntoRaw(@)]
            /\ fpc' = [fpc EXCEPT ![t] = "running"]
            /\ pc' = [pc EXCEPT ![t] = "in_ffi"]
            /\ UNCHANGED result
    /\ UNCHANGED <<mutex, delivered, sinkLog, terminal, spurious, stopCalls,
                   cancelAt, crashed>>
    /\ UNCHANGED svars

ResponseEnter(t, prompt) == Enter(t, "response", prompt)

StreamEnter(t, prompt) == Enter(t, "stream", prompt)

\* fm_response / fm_start_stream returns to the calling thread.
FfiReturn(t) ==
    /\ ~crashed
    /\ pc[t] = "in_ffi"
    /\ pc' = [pc EXCEPT ![t] = "lock"]
    /\ UNCHANGED <<call, cell, mutex, handle, fpc, delivered, sinkLog,
                   terminal, result, spurious, stopCalls, cancelAt, crashed>>
    /\ UNCHANGED svars

\* mutex.lock()
WaitLock(t) ==
    /\ ~crashed
    /\ pc[t] = "lock"
    /\ mutex[t] = "free"
    /\ mutex' = [mutex EXCEPT ![t] = "caller"]
    /\ pc' = [pc EXCEPT ![t] = "check"]
    /\ UNCHANGED <<call, cell, handle, fpc, delivered, sinkLog, terminal,
                   result, spurious, stopCalls, cancelAt, crashed>>
    /\ UNCHANGED svars

\* Fault: an if in place of the while, so a woken thread does not test again.
MustWaitOnce(t) == ~cell[t].finished /\ spurious[t] = 0

\* Fault: the wait also ends once a cancellation was asked for.
MustWaitUnlessStopped(t) == ~cell[t].finished /\ stopCalls = 0

\* while !state.finished
MustWait(t) == ~cell[t].finished

\* Fault: a cancelled stream is reported as an error.
ReturnValueCancelled(kind, state) ==
    IF state.error # <<>>
    THEN Classify(state.error[1])
    ELSE IF kind = "response" THEN OkText(state.text)
    ELSE IF stopCalls > 0 THEN ErrGenerationError(<<>>)
    ELSE OkUnit

\* Fault: the streaming bridge has no marker test and reports every
\* recorded message as a GenerationError.
ReturnValueUnclassified(kind, state) ==
    IF state.error # <<>>
    THEN IF kind = "response" THEN Classify(state.error[1])
         ELSE ErrGenerationError(state.error[1])
    ELSE IF kind = "response" THEN OkText(state.text) ELSE OkUnit

\* What the bridge returns once finished is seen.
ReturnValue(kind, state) ==
    IF state.error # <<>>
    THEN Classify(state.error[1])
    ELSE IF kind = "response" THEN OkText(state.text) ELSE OkUnit

\* Fault: the text is moved out of the cell (mem::take) where it is cloned.
WaitCheckTakes(t) ==
    /\ ~crashed
    /\ pc[t] = "check"
    /\ mutex' = [mutex EXCEPT ![t] = "free"]
    /\ IF MustWait(t)
       THEN /\ pc' = [pc EXCEPT ![t] = "waiting"]
            /\ UNCHANGED <<result, cell>>
       ELSE /\ pc' = [pc EXCEPT ![t] = "returned"]
            /\ result' = [result EXCEPT ![t] = ReturnValue(call[t].kind, cell[t])]
            /\ cell' = [cell EXCEPT ![t].text = <<>>]
    /\ UNCHANGED <<call, handle, fpc, delivered, sinkLog, terminal,
                   spurious, stopCalls, cancelAt, crashed>>
    /\ UNCHANGED svars

\* The loop test with the lock held: cvar.wait releases the lock and
\* blocks; otherwise the error check, the return, and the guard's drop.
WaitCheck(t) ==
    /\ ~crashed
    /\ pc[t] = "check"
    /\ mutex' = [mutex EXCEPT ![t] = "free"]
    /\ IF MustWait(t)
       THEN /\ pc' = [pc EXCEPT ![t] = "waiting"]
            /\ UNCHANGED result
       ELSE /\ pc' = [pc EXCEPT ![t] = "returned"]
            /\ result' = [result EXCEPT ![t] = ReturnValue(call[t].kind, cell[t])]
    /\ UNCHANGED <<call, cell, handle, fpc, delivered, sinkLog, terminal,
                   spurious, stopCalls, cancelAt, crashed>>
    /\ UNCHANGED svars

\* A wakeup of cvar.wait nobody sent.
SpuriousWake(t) ==
    /\ ~crashed
    /\ pc[t] = "waiting"
    /\ spurious[t] < MaxSpurious
    /\ spurious' = [spurious EXCEPT ![t] = @ + 1]
    /\ pc' = [pc EXCEPT ![t] = "woken"]
    /\ UNCHANGED <<call, cell, mutex, handle, fpc, delivered, sinkLog,
                   terminal, result, stopCalls, cancelAt, crashed>>
    /\ UNCHANGED svars

\* cvar.wait takes the lock again before it returns.
WaitReacquire(t) ==
    /\ ~crashed
    /\ pc[t] = "woken"
    /\ mutex[t] = "free"
    /\ mutex' = [mutex EXCEPT ![t] = "caller"]
    /\ pc' = [pc EXCEPT ![t] = "check"]
    /\ UNCHANGED <<call, cell, handle, fpc, delivered, sinkLog, terminal,
                   result, spurious, stopCalls, cancelAt, crashed>>
    /\ UNCHANGED svars

\* Fault: fm_stop_stream() with no stream to stop brings the process down.
StopStreamOrPanic(limit) ==
    /\ ~crashed
    /\ stopCalls < limit
    /\ stopCalls' = stopCalls + 1
    /\ crashed' = ~(\E t \in AllCallers :
                      call[t].kind = "stream" /\ fpc[t] = "running")
    /\ UNCHANGED <<pc, call, cell, mutex, handle, fpc, delivered, sinkLog,
                   terminal, result, spurious, cancelAt>>
    /\ UNCHANGED svars

\* cancel_stream(): fm_stop_stream() and nothing else.  The foreign side
\* gets the stop signal; at most limit calls are made.
StopStream(limit) ==
    /\ ~crashed
    /\ stopCalls < limit
    /\ stopCalls' = stopCalls + 1
    /\ cancelAt' = [t \in AllCallers |->
                      IF /\ call[t].kind = "stream"
                         /\ fpc[t] = "running"
                         /\ cancelAt[t] = <<>>
                      THEN <<[chunks |-> Len(delivered[t]),
                              sunk |-> Len(sinkLog[t])]>>
                      ELSE cancelAt[t]]
    /\ UNCHANGED <<pc, call, cell, mutex, handle, fpc, delivered, sinkLog,
                   terminal, result, spurious, crashed>>
    /\ UNCHANGED svars

CancelStream == StopStream(MaxCancels)

(***************************************************************************)
(* The foreign side's callbacks.  The foreign side invokes them with the   *)
(* context pointer it was given: zero or more chunk callbacks, then one    *)
(* terminal callback.  A callback's mutex.lock() goes through when the     *)
(* lock is free; the calling thread is the only other holder.              *)
(***************************************************************************)
\* Fault: the terminal callback borrows the handle and never reclaims it.
FromRawBorrowed(h) == [h EXCEPT !.state = "reclaimed"]

\* Box::from_raw: the callback owns the box again.
FromRaw(h) == [h EXCEPT !.state = "reclaimed", !.fromRaw = @ + 1]

\* The box is dropped: the allocation is freed.
DropBox(h) == [h EXCEPT !.state = "freed", !.frees = @ + 1]

\* Fault: the chunk replaces the accumulated text.
PushStrOverwrite(text, chunk) == Lossy(chunk.bytes)

\* text.push_str(&chunk_str)
PushStr(text, chunk) == text \o Lossy(chunk.bytes)

\* Fault: to_str().ok() in place of to_string_lossy(): an ill-formed chunk
\* never reaches the sink.
InvokeSinkStrict(log, chunk) ==
    IF \E i \in DOMAIN chunk.bytes : ~DecodeAt(chunk.bytes, i).ok
    THEN log
    ELSE Append(log, Lossy(chunk.bytes))

\* (data.1)(&chunk_str): the sink is invoked with the chunk's text.
InvokeSink(log, chunk) == Append(log, Lossy(chunk.bytes))

\* Fault: the message is not recorded.
RecordErrorNowhere(state, error) == state

\* state.error = Some(error_str) unless the message pointer is null.
RecordError(state, error) ==
    IF error.null THEN state
    ELSE [state EXCEPT !.error = <<Lossy(error.bytes)>>]

\* Fault: the terminal callback notifies without setting finished.
LeaveUnfinished(state) == state

\* state.finished = true
SetFinished(state) == [state EXCEPT !.finished = TRUE]

\* Fault: notify_all() is left out.
NotifyNobody(pcs, t) == pcs

\* Fault: one condition variable for all calls, so every blocked thread
\* is woken.
NotifyEveryCall(pcs, t) ==
    [u \in AllCallers |-> IF pcs[u] = "waiting" THEN "woken" ELSE pcs[u]]

\* cvar.notify_all(): a thread blocked in cvar.wait is woken.
NotifyAll(pcs, t) ==
    IF pcs[t] = "waiting" THEN [pcs EXCEPT ![t] = "woken"] ELSE pcs

\* The error pointer the terminal callback in progress was invoked with.
PendingError(t) ==
    IF terminal[t] = <<>> THEN NullPtr ELSE terminal[t][Len(terminal[t])].error

Running(t, kind) ==
    /\ ~crashed
    /\ call[t].kind = kind
    /\ fpc[t] = "running"

\* Fault: the null test of the chunk pointer is left out, and
\* CStr::from_ptr(null) brings the process down.
response_callback_unchecked(t, chunk) ==
    /\ Running(t, "response")
    /\ Len(delivered[t]) < MaxChunks
    /\ delivered' = [delivered EXCEPT ![t] = Append(@, chunk)]
    /\ IF chunk.null
       THEN crashed' = TRUE /\ UNCHANGED cell
       ELSE /\ mutex[t] = "free"
            /\ cell' = [cell EXCEPT ![t].text = PushStr(@, chunk)]
            /\ UNCHANGED crashed
    /\ UNCHANGED <<pc, call, mutex, handle, fpc, sinkLog, terminal, result,
                   spurious, stopCalls, cancelAt>>
    /\ UNCHANGED svars

response_callback(t, chunk) ==
    /\ Running(t, "response")
    /\ Len(delivered[t]) < MaxChunks
    /\ delivered' = [delivered EXCEPT ![t] = Append(@, chunk)]
    /\ IF chunk.null
       THEN UNCHANGED cell
       ELSE /\ mutex[t] = "free"
            /\ cell' = [cell EXCEPT ![t].text = PushStr(@, chunk)]
    /\ UNCHANGED <<pc, call, mutex, handle, fpc, sinkLog, terminal, result,
                   spurious, stopCalls, cancelAt, crashed>>
    /\ UNCHANGED svars

\* Box::from_raw, the Arc's clone, and the box's drop.
ResponseDoneReclaim(t) ==
    /\ Running(t, "response")
    /\ terminal' = [terminal EXCEPT ![t] = Append(@, [kind |-> "done", error |-> NullPtr])]
    /\ handle' = [handle EXCEPT ![t] = DropBox(FromRaw(@))]
    /\ fpc' = [fpc EXCEPT ![t] = "done_fulfil"]
    /\ UNCHANGED <<pc, call, cell, mutex, delivered, sinkLog, result,
                   spurious, stopCalls, cancelAt, crashed>>
    /\ UNCHANGED svars

\* The lock, finished, notify_all, the guard's drop.  The callback is not
\* over yet: it still holds state_arc, its clone of the cell's Arc.
ResponseDoneFulfil(t) ==
    /\ ~crashed
    /\ call[t].kind = "response"
    /\ fpc[t] = "done_fulfil"
    /\ mutex[t] = "free"
    /\ cell' = [cell EXCEPT ![t] = SetFinished(@)]
    /\ pc' = NotifyAll(pc, t)
    /\ fpc' = [fpc EXCEPT ![t] = "drop"]
    /\ UNCHANGED <<call, mutex, handle, delivered, sinkLog, terminal, result,
                   spurious, stopCalls, cancelAt, crashed>>
    /\ UNCHANGED svars

\* The callback's end: state_arc is dropped, after the lock was released.
\* The calling thread may have returned by then, and the cell is freed by
\* the thread that drops the last Arc.
ResponseDrop(t) ==
    /\ ~crashed
    /\ call[t].kind = "response"
    /\ fpc[t] = "drop"
    /\ fpc' = [fpc EXCEPT ![t] = "finished"]
    /\ UNCHANGED <<pc, call, cell, mutex, handle, delivered, sinkLog,
                   terminal, result, spurious, stopCalls, cancelAt, crashed>>
    /\ UNCHANGED svars

response_done_callback(t) ==
    ResponseDoneReclaim(t) \/ ResponseDoneFulfil(t) \/ ResponseDrop(t)

ResponseErrorReclaim(t, error) ==
    /\ Running(t, "response")
    /\ terminal' = [terminal EXCEPT ![t] = Append(@, [kind |-> "error", error |-> error])]
    /\ handle' = [handle EXCEPT ![t] = DropBox(FromRaw(@))]
    /\ fpc' = [fpc EXCEPT ![t] = "error_fulfil"]
    /\ UNCHANGED <<pc, call, cell, mutex, delivered, sinkLog, result,
                   spurious, stopCalls, cancelAt, crashed>>
    /\ UNCHANGED svars

ResponseErrorFulfil(t) ==
    /\ ~crashed
    /\ call[t].kind = "response"
    /\ fpc[t] = "error_fulfil"
    /\ mutex[t] = "free"
    /\ cell' = [cell EXCEPT
                  ![t] = SetFinished(RecordError(@, PendingError(t)))]
    /\ pc' = NotifyAll(pc, t)
    /\ fpc' = [fpc EXCEPT ![t] = "drop"]
    /\ UNCHANGED <<call, mutex, handle, delivered, sinkLog, terminal, result,
                   spurious, stopCalls, cancelAt, crashed>>
    /\ UNCHANGED svars

response_error_callback(t, error) ==
    ResponseErrorReclaim(t, error) \/ ResponseErrorFulfil(t) \/ ResponseDrop(t)

stream_chunk_callback(t, chunk) ==
    /\ Running(t, "stream")
    /\ Len(delivered[t]) < MaxChunks
    /\ delivered' = [delivered EXCEPT ![t] = Append(@, chunk)]
    /\ sinkLog' = IF chunk.null THEN sinkLog
                  ELSE [sinkLog EXCEPT ![t] = InvokeSink(@, chunk)]
    /\ UNCHANGED <<pc, call, cell, mutex, handle, fpc, terminal, result,
                   spurious, stopCalls, cancelAt, crashed>>
    /\ UNCHANGED svars

\* Box::from_raw: the box lives until the callback's end.
StreamDoneReclaim(t) ==
    /\ Running(t, "stream")
    /\ terminal' = [terminal EXCEPT ![t] = Append(@, [kind |-> "done", error |-> NullPtr])]
    /\ handle' = [handle EXCEPT ![t] = FromRaw(@)]
    /\ fpc' = [fpc EXCEPT ![t] = "done_fulfil"]
    /\ UNCHANGED <<pc, call, cell, mutex, delivered, sinkLog, result,
                   spurious, stopCalls, cancelAt, crashed>>
    /\ UNCHANGED svars

StreamDoneFulfil(t) ==
    /\ ~crashed
    /\ call[t].kind = "stream"
    /\ fpc[t] = "done_fulfil"
    /\ mutex[t] = "free"
    /\ cell' = [cell EXCEPT ![t] = SetFinished(@)]
    /\ pc' = NotifyAll(pc, t)
    /\ fpc' = [fpc EXCEPT ![t] = "drop"]
    /\ UNCHANGED <<call, mutex, handle, delivered, sinkLog, terminal, result,
                   spurious, stopCalls, cancelAt, crashed>>
    /\ UNCHANGED svars

\* The callback's end: the box, with the Arc and the sink in it, is dropped.
StreamDrop(t) ==
    /\ ~crashed
    /\ call[t].kind = "stream"
    /\ fpc[t] = "drop"
    /\ handle' = [handle EXCEPT ![t] = DropBox(@)]
    /\ fpc' = [fpc EXCEPT ![t] = "finished"]
    /\ UNCHANGED <<pc, call, cell, mutex, delivered, sinkLog, terminal,
                   result, spurious, stopCalls, cancelAt, crashed>>
    /\ UNCHANGED svars

stream_done_callback(t) ==
    StreamDoneReclaim(t) \/ StreamDoneFulfil(t)

StreamErrorReclaim(t, error) ==
    /\ Running(t, "stream")
    /\ terminal' = [terminal EXCEPT ![t] = Append(@, [kind |-> "error", error |-> error])]
    /\ handle' = [handle EXCEPT ![t] = FromRaw(@)]
    /\ fpc' = [fpc EXCEPT ![t] = "error_fulfil"]
    /\ UNCHANGED <<pc, call, cell, mutex, delivered, sinkLog, result,
                   spurious, stopCalls, cancelAt, crashed>>
    /\ UNCHANGED svars

StreamErrorFulfil(t) ==
    /\ ~crashed
    /\ call[t].kind = "stream"
    /\ fpc[t] = "error_fulfil"
    /\ mutex[t] = "free"
    /\ cell' = [cell EXCEPT
                  ![t] = SetFinished(RecordError(@, PendingError(t)))]
    /\ pc' = NotifyAll(pc, t)
    /\ fpc' = [fpc EXCEPT ![t] = "drop"]
    /\ UNCHANGED <<call, mutex, handle, delivered, sinkLog, terminal, result,
                   spurious, stopCalls, cancelAt, crashed>>
    /\ UNCHANGED svars

stream_error_callback(t, error) ==
    StreamErrorReclaim(t, error) \/ StreamErrorFulfil(t)

(***************************************************************************)
(* The specification: the calling threads, cancel_stream(), and a foreign  *)
(* side that keeps its contract.                                           *)
(***************************************************************************)
CallerStep(t, prompts) ==
    \/ \E prompt \in prompts : ResponseEnter(t, prompt)
    \/ \E prompt \in prompts : StreamEnter(t, prompt)
    \/ FfiReturn(t)
    \/ WaitLock(t)
    \/ WaitCheck(t)
    \/ SpuriousWake(t)
    \/ WaitReacquire(t)

ForeignStep(t, chunks, errors) ==
    \/ \E chunk \in chunks : response_callback(t, chunk)
    \/ response_done_callback(t)
    \/ \E error \in errors : response_error_callback(t, error)
    \/ \E chunk \in chunks : stream_chunk_callback(t, chunk)
    \/ stream_done_callback(t)
    \/ \E error \in errors : stream_error_callback(t, error)
    \/ StreamDrop(t)

Next ==
    \/ \E t \in Callers : CallerStep(t, PromptInputs)
    \/ \E t \in Callers : ForeignStep(t, ChunkInputs, ErrorInputs)
    \/ CancelStream

Spec == Init /\ [][Next]_vars


(***************************************************************************)
(* A test harness in the foreign side's place that invokes a terminal      *)
(* callback a second time with the context pointer of a call whose         *)
(* terminal callback has run.  The callback does Box::from_raw on the      *)
(* pointer again; the box was freed, so what follows is undefined: the     *)
(* process is brought down, or the callback runs on over the stale memory  *)
(* (the second drop of the box, the lock, error and finished, notify_all). *)
(***************************************************************************)
SecondTerminal(t, kind, error, outcome) ==
    /\ ~crashed
    /\ fpc[t] = "finished"
    /\ Len(terminal[t]) = 1
    /\ terminal' = [terminal EXCEPT ![t] = Append(@, [kind |-> kind, error |-> error])]
    /\ IF outcome = "crash"
       THEN /\ handle' = [handle EXCEPT ![t] = FromRaw(@)]
            /\ crashed' = TRUE
            /\ UNCHANGED <<cell, pc>>
       ELSE /\ mutex[t] = "free"
            /\ handle' = [handle EXCEPT ![t] = DropBox(FromRaw(@))]
            /\ cell' = [cell EXCEPT ![t] = SetFinished(RecordError(@, error))]
            /\ pc' = NotifyAll(pc, t)
            /\ UNCHANGED crashed
    /\ UNCHANGED <<call, mutex, fpc, delivered, sinkLog, result, spurious,
                   stopCalls, cancelAt>>
    /\ UNCHANGED svars

SecondDone(t) ==
    \E outcome \in {"crash", "continue"} :
        SecondTerminal(t, "done", NullPtr, outcome)

SecondError(t, error) ==
    \E outcome \in {"crash", "continue"} :
        SecondTerminal(t, "error", error, outcome)

HarnessNext ==
    \/ Next
    \/ \E t \in Callers : SecondDone(t)
    \/ \E t \in Callers : \E error \in ErrorInputs : SecondError(t, error)

HarnessSpec == Init /\ [][HarnessNext]_vars

(***************************************************************************)
(* The same system with the fairness the code's scheduling gives: a        *)
(* thread that can run does run, a free lock is taken by the thread that   *)
(* asks for it, and the foreign side does invoke a terminal callback and   *)
(* lets a callback it entered run to its end.  Nothing makes a spurious    *)
(* wakeup, a chunk or a cancellation happen.                               *)
(***************************************************************************)
\* The inputs of the fair specification: a valid and an invalid prompt, a
\* null and a non-null chunk, and as error message a null pointer, one with
\* the marker and one without it.
LivePromptInputs == { <<>>, <<72, 105>> }

LiveChunkInputs == { NullPtr, CStr(<<65>>) }

LiveErrorInputs == { NullPtr, CStr(Marker), CStr(<<255, 110, 111, 116>>) }

LiveNext ==
    \/ \E t \in Callers : CallerStep(t, LivePromptInputs)
    \/ \E t \in Callers : ForeignStep(t, LiveChunkInputs, LiveErrorInputs)
    \/ CancelStream

TerminalInvoked(t) ==
    \/ ResponseDoneReclaim(t)
    \/ \E error \in LiveErrorInputs : ResponseErrorReclaim(t, error)
    \/ StreamDoneReclaim(t)
    \/ \E error \in LiveErrorInputs : StreamErrorReclaim(t, error)

TerminalCompletes(t) ==
    \/ ResponseDoneFulfil(t)
    \/ ResponseErrorFulfil(t)
    \/ StreamDoneFulfil(t)
    \/ StreamErrorFulfil(t)
    \/ ResponseDrop(t)
    \/ StreamDrop(t)

CallerRuns(t) ==
    \/ FfiReturn(t)
    \/ WaitLock(t)
    \/ WaitCheck(t)
    \/ WaitReacquire(t)

Fairness ==
    \A t \in Callers :
        /\ WF_vars(CallerRuns(t))
        /\ WF_vars(TerminalInvoked(t))
        /\ WF_vars(TerminalCompletes(t))

LiveSpec == Init /\ [][LiveNext]_vars /\ Fairness

(***************************************************************************)
(* Definitions the properties are stated with.                             *)
(***************************************************************************)
Crossed(t) == fpc[t] # "none"

Returned(t) == pc[t] = "returned"

RECURSIVE Flatten(_)
Flatten(seqs) ==
    IF seqs = <<>> THEN <<>> ELSE Head(seqs) \o Flatten(Tail(seqs))

\* The non-null pointers of a sequence of pointers, in order.
NonNull(ptrs) == SelectSeq(ptrs, LAMBDA p : ~p.null)

BytesOf(ptrs) == [i \in 1..Len(ptrs) |-> ptrs[i].bytes]

TextsOf(ptrs) == [i \in 1..Len(ptrs) |-> Lossy(ptrs[i].bytes)]

\* UTF-8 of one scalar value.
Utf8Encode(cp) ==
    IF cp < 128 THEN <<cp>>
    ELSE IF cp < 2048 THEN <<192 + (cp \div 64), 128 + (cp % 64)>>
    ELSE IF cp < 65536
    THEN <<224 + (cp \div 4096), 128 + ((cp \div 64) % 64), 128 + (cp % 64)>>
    ELSE <<240 + (cp \div 262144), 128 + ((cp \div 4096) % 64),
           128 + ((cp \div 64) % 64), 128 + (cp % 64)>>

Utf8(text) == Flatten([i \in 1..Len(text) |-> Utf8Encode(text[i])])

\* Well-formed UTF-8 (the Unicode standard's table of byte sequences).
RECURSIVE WellFormedFrom(_, _)
WellFormedFrom(s, i) ==
    LET In(k, lo, hi) == i + k <= Len(s) /\ s[i + k] >= lo /\ s[i + k] <= hi
    IN  IF i > Len(s) THEN TRUE
        ELSE IF s[i] < 128 THEN WellFormedFrom(s, i + 1)
        ELSE IF In(0, 194, 223) /\ In(1, 128, 191) THEN WellFormedFrom(s, i + 2)
        ELSE IF /\ \/ In(0, 224, 224) /\ In(1, 160, 191)
                   \/ In(0, 225, 236) /\ In(1, 128, 191)
                   \/ In(0, 237, 237) /\ In(1, 128, 159)
                   \/ In(0, 238, 239) /\ In(1, 128, 191)
                /\ In(2, 128, 191)
             THEN WellFormedFrom(s, i + 3)
        ELSE IF /\ \/ In(0, 240, 240) /\ In(1, 144, 191)
                   \/ In(0, 241, 243) /\ In(1, 128, 191)
                   \/ In(0, 244, 244) /\ In(1, 128, 143)
                /\ In(2, 128, 191)
                /\ In(3, 128, 191)
             THEN WellFormedFrom(s, i + 4)
        ELSE FALSE

WellFormed(bytes) == WellFormedFrom(bytes, 1)

\* The needle occurs at some position of hay.
OccursIn(needle, hay) ==
    \E i \in 1..Len(hay) :
        /\ i + Len(needle) - 1 <= Len(hay)
        /\ \A k \in 1..Len(needle) : hay[i + k - 1] = needle[k]

\* The one terminal callback of a call that kept the contract.
EndedBy(t, kind) == Len(terminal[t]) = 1 /\ terminal[t][1].kind = kind

(***************************************************************************)
(* C1.  A blocking call whose chunks c1..cn were followed by on_done       *)
(* returns Ok with the texts of the non-null chunks concatenated in        *)
(* delivery order, Ok("") when there were none; when every chunk is        *)
(* well-formed UTF-8 the returned text encodes to exactly the bytes        *)
(* c1 ++ ... ++ cn.                                                        *)
(***************************************************************************)
C1_ResponseConcatenates ==
    \A t \in Callers :
        (Returned(t) /\ Crossed(t) /\ call[t].kind = "response" /\ EndedBy(t, "done"))
        => LET chunks == NonNull(delivered[t])
           IN  /\ result[t] = OkText(Flatten(TextsOf(chunks)))
               /\ (chunks = <<>> => result[t] = OkText(<<>>))
               /\ (\A i \in 1..Len(chunks) : WellFormed(chunks[i].bytes))
                  => Utf8(result[t].text) = Flatten(BytesOf(chunks))

C1_Witness ==
    /\ Returned(1) /\ call[1].kind = "response" /\ EndedBy(1, "done")
    /\ result[1].tag = "Ok"
    /\ result[1].text = <<65, 233>>

(***************************************************************************)
(* C2.  A call that crossed the boundary returns, whenever the terminal    *)
(* callback runs: no thread is left blocked in the wait with finished      *)
(* already set, and every call in progress leads to its return.            *)
(***************************************************************************)
C2_EventuallyReturns ==
    /\ [](\A t \in Callers : pc[t] = "waiting" => ~cell[t].finished)
    /\ \A t \in Callers : (pc[t] \notin {"idle", "returned"}) ~> Returned(t)

\* The terminal callback ran while the thread was blocked, and woke it.
C2_Witness ==
    /\ pc[1] = "woken" /\ spurious[1] = 0 /\ cell[1].finished

(***************************************************************************)
(* C3.  A call that crossed the boundary has not returned unless a         *)
(* terminal callback has set finished and released the lock; while the     *)
(* foreign side has invoked no terminal callback the thread has not        *)
(* returned, spurious wakeups or not.                                      *)
(***************************************************************************)
C3_ReturnsOnlyWhenFinished ==
    \A t \in Callers :
        /\ (Returned(t) /\ Crossed(t))
           => cell[t].finished /\ fpc[t] \in {"drop", "finished"}
        /\ (Crossed(t) /\ terminal[t] = <<>>) => ~Returned(t)

\* The thread went back to the wait after a spurious wakeup.
C3_Witness ==
    /\ pc[1] = "waiting" /\ spurious[1] > 0 /\ fpc[1] = "running"

(***************************************************************************)
(* C4.  A call with an empty prompt or a prompt holding a 0 byte has       *)
(* returned Err(InvalidInput) in the step that made it: no foreign entry   *)
(* point was called, no handle allocated, no callback ran, the sink was    *)
(* not invoked.                                                            *)
(***************************************************************************)
C4_InvalidPromptStopsAtTheBoundary ==
    \A t \in Callers :
        (/\ call[t].kind # "none"
         /\ \/ Len(call[t].prompt) = 0
            \/ \E i \in DOMAIN call[t].prompt : call[t].prompt[i] = 0)
        => /\ Returned(t)
           /\ result[t].tag = "Err" /\ result[t].kind = "InvalidInput"
           /\ ~Crossed(t)
           /\ handle[t] = NoHandle
           /\ delivered[t] = <<>> /\ terminal[t] = <<>>
           /\ sinkLog[t] = <<>>
           /\ mutex[t] = "free" /\ spurious[t] = 0

C4_Witness ==
    /\ call[1] = [kind |-> "stream", prompt |-> <<72, 0, 105>>]
    /\ Returned(1)

(***************************************************************************)
(* C5.  Under the foreign contract a call that crosses the boundary        *)
(* transfers one boxed handle, and the handle is reclaimed once, by the    *)
(* terminal callback: not while chunks are delivered, once from the        *)
(* terminal callback's start, and freed once by its end.                   *)
(***************************************************************************)
C5_HandleReclaimedOnce ==
    \A t \in Callers :
        /\ handle[t].intoRaw = (IF Crossed(t) THEN 1 ELSE 0)
        /\ handle[t].fromRaw <= 1 /\ handle[t].frees <= 1
        /\ fpc[t] = "running"
           => handle[t].fromRaw = 0 /\ handle[t].frees = 0
              /\ handle[t].state = "foreign"
        /\ (Crossed(t) /\ fpc[t] # "running")
           => handle[t].fromRaw = 1 /\ Len(terminal[t]) = 1
        /\ fpc[t] = "finished"
           => handle[t].frees = 1 /\ handle[t].state = "freed"
        /\ (Returned(t) /\ Crossed(t)) => handle[t].fromRaw = 1

C5_Witness ==
    /\ fpc[1] = "finished" /\ EndedBy(1, "error")
    /\ Len(delivered[1]) >= 2
    /\ handle[1].fromRaw = 1 /\ handle[1].frees = 1

(***************************************************************************)
(* C6.  Whatever terminal callbacks a harness invokes, a second one with   *)
(* the same context pointer included, the handle of a call is reclaimed    *)
(* and freed at most once.                                                 *)
(***************************************************************************)
C6_NoSecondReclaim ==
    \A t \in Callers : handle[t].fromRaw <= 1 /\ handle[t].frees <= 1

(***************************************************************************)
(* C7.  A blocking call ended by on_error with a non-null message returns  *)
(* Err, ModelNotAvailable or GenerationError with the message: the text    *)
(* accumulated from the chunks is not in what it returns.                  *)
(***************************************************************************)
C7_ErrorDiscardsPartialText ==
    \A t \in Callers :
        (/\ Returned(t) /\ Crossed(t) /\ call[t].kind = "response"
         /\ EndedBy(t, "error") /\ ~terminal[t][1].error.null)
        => /\ result[t].tag = "Err"
           /\ result[t].kind \in {"ModelNotAvailable", "GenerationError"}
           /\ result[t].text = <<>>
           /\ result[t].msg \in {<<>>, Lossy(terminal[t][1].error.bytes)}

\* "A" was accumulated, then on_error("not available").
C7_Witness ==
    /\ Returned(1) /\ call[1].kind = "response"
    /\ cell[1].text = <<65>>
    /\ EndedBy(1, "error") /\ terminal[1][1].error = CStr(Marker)
    /\ result[1] = ErrModelNotAvailable

(***************************************************************************)
(* C8.  The recorded message is the terminal callback's message decoded;   *)
(* a call with a recorded message returns ModelNotAvailable when           *)
(* "not available" occurs at some position of it, and otherwise            *)
(* GenerationError with the recorded message.                              *)
(***************************************************************************)
C8_ClassifiedBySubstring ==
    \A t \in Callers :
        (Returned(t) /\ Crossed(t) /\ cell[t].error # <<>>)
        => LET m == cell[t].error[1]
           IN  /\ EndedBy(t, "error")
               /\ m = Lossy(terminal[t][1].error.bytes)
               /\ OccursIn(Marker, m) => result[t] = ErrModelNotAvailable
               /\ ~OccursIn(Marker, m) => result[t] = ErrGenerationError(m)

\* "M: not available." is classified as ModelNotAvailable.
C8_Witness ==
    /\ Returned(1) /\ call[1].kind = "stream"
    /\ cell[1].error # <<>> /\ Len(cell[1].error[1]) > Len(Marker)
    /\ result[1] = ErrModelNotAvailable

(***************************************************************************)
(* C9.  In a streaming call the sink has been invoked with the texts of    *)
(* the non-null chunks delivered so far, once each and in delivery order;  *)
(* no sink invocation comes once the terminal callback has been invoked,   *)
(* and the call returns, Ok or Err, with the sink invoked once per         *)
(* non-null chunk.                                                         *)
(***************************************************************************)
C9_SinkOncePerChunkInOrder ==
    /\ [](\A t \in Callers :
            call[t].kind = "stream"
            => sinkLog[t] = TextsOf(NonNull(delivered[t])))
    /\ [][\A t \in Callers :
            (terminal[t] # <<>> \/ Returned(t)) => sinkLog'[t] = sinkLog[t]]_vars

\* An Err return after three chunks, one of them null: two invocations.
C9_Witness ==
    /\ Returned(1) /\ call[1].kind = "stream" /\ result[1].tag = "Err"
    /\ Len(delivered[1]) = 3
    /\ sinkLog[1] = <<<<233>>, <<65>>>>

(***************************************************************************)
(* C10.  A streaming call that was cancelled when the sink had been        *)
(* invoked k times, got no chunk after the cancellation and was ended by   *)
(* on_done returns Ok(()) with the sink invoked k times.                   *)
(***************************************************************************)
C10_CancelThenDone ==
    \A t \in Callers :
        (/\ Returned(t) /\ call[t].kind = "stream"
         /\ cancelAt[t] # <<>>
         /\ Len(delivered[t]) = cancelAt[t][1].chunks
         /\ EndedBy(t, "done"))
        => /\ result[t] = OkUnit
           /\ Len(sinkLog[t]) = cancelAt[t][1].sunk

\* Three chunks reached the sink, then the cancellation, then on_done.
C10_Witness ==
    /\ Returned(1) /\ call[1].kind = "stream"
    /\ cancelAt[1] = <<[chunks |-> 3, sunk |-> 3]>>
    /\ Len(sinkLog[1]) = 3 /\ Len(delivered[1]) = 3
    /\ EndedBy(1, "done")
    /\ result[1] = OkUnit

\* The sink invocations a stream had received when it was cancelled.
SunkBeforeCancel(t) == SubSeq(sinkLog[t], 1, cancelAt[t][1].sunk)

\* A streaming call during which cancel_stream() was called.
Cancelled(t) == call[t].kind = "stream" /\ cancelAt[t] # <<>>

(***************************************************************************)
(* C11 as stated.  A stream cancelled while active is ended by a terminal  *)
(* callback and returns, with Ok(()) or Err(GenerationError) and nothing   *)
(* else, and the sink invocations made before the cancellation stay.       *)
(***************************************************************************)
C11_OkOrGenerationError ==
    /\ \A t \in Callers : Cancelled(t) ~> (Returned(t) /\ terminal[t] # <<>>)
    /\ [](\A t \in Callers :
            (Cancelled(t) /\ Returned(t))
            => \/ result[t] = OkUnit
               \/ result[t].tag = "Err" /\ result[t].kind = "GenerationError")
    /\ [][\A t \in Callers :
            Cancelled(t) => SunkBeforeCancel(t)' = SunkBeforeCancel(t)]_vars

(***************************************************************************)
(* C11.  A stream cancelled while active is ended by a terminal callback   *)
(* and returns; it returns Ok(()), Err(GenerationError) with the terminal  *)
(* callback's message, or Err(ModelNotAvailable) when that message has the *)
(* marker; the sink invocations made before the cancellation stay as they  *)
(* were.                                                                   *)
(***************************************************************************)
C11_CancelledStreamReturns ==
    /\ \A t \in Callers : Cancelled(t) ~> (Returned(t) /\ terminal[t] # <<>>)
    /\ [](\A t \in Callers :
            (Cancelled(t) /\ Returned(t))
            => \/ result[t] = OkUnit
               \/ /\ EndedBy(t, "error") /\ ~terminal[t][1].error.null
                  /\ result[t] = Classify(Lossy(terminal[t][1].error.bytes)))
    /\ [][\A t \in Callers :
            Cancelled(t) => SunkBeforeCancel(t)' = SunkBeforeCancel(t)]_vars

\* Cancelled after two sink invocations, a third came after the
\* cancellation, then on_error with a message without the marker.
C11_Witness ==
    /\ Returned(1) /\ Cancelled(1)
    /\ cancelAt[1][1].sunk = 2 /\ Len(sinkLog[1]) = 3
    /\ result[1].tag = "Err" /\ result[1].kind = "GenerationError"

(***************************************************************************)
(* C12.  Once cancel_stream() was called during an active stream the sink  *)
(* is not invoked again, and the call returns Ok(()) with the sink         *)
(* invocations it had at the cancellation.                                 *)
(***************************************************************************)
C12_SinkStopsAtCancel ==
    /\ [][\A t \in Callers : Cancelled(t) => sinkLog'[t] = sinkLog[t]]_vars
    /\ [](\A t \in Callers :
            (Cancelled(t) /\ Returned(t))
            => /\ result[t] = OkUnit
               /\ Len(sinkLog[t]) = cancelAt[t][1].sunk)

(***************************************************************************)
(* The calls with cancel_stream() called up to MaxIdleCancels times, at    *)
(* any moment: with no call made yet, between calls, during a call.        *)
(***************************************************************************)
CancelNext ==
    \/ \E t \in Callers : CallerStep(t, LivePromptInputs)
    \/ \E t \in Callers : ForeignStep(t, LiveChunkInputs, LiveErrorInputs)
    \/ StopStream(MaxIdleCancels)

CancelSpec == Init /\ [][CancelNext]_vars

\* A thread is inside stream_response.
StreamActive ==
    \E t \in AllCallers :
        call[t].kind = "stream" /\ pc[t] \notin {"idle", "returned"}

\* What a call's own callbacks make it return.
OutcomeOf(t) ==
    IF EndedBy(t, "error") /\ ~terminal[t][1].error.null
    THEN LET m == Lossy(terminal[t][1].error.bytes)
         IN  IF OccursIn(Marker, m) THEN ErrModelNotAvailable
             ELSE ErrGenerationError(m)
    ELSE IF call[t].kind = "response"
    THEN OkText(Flatten(TextsOf(NonNull(delivered[t]))))
    ELSE OkUnit

(***************************************************************************)
(* C13.  A cancel_stream() with no stream active changes nothing of the    *)
(* bridge, whichever call in the row it is, and does not bring anything    *)
(* down; a call that no cancellation hit returns what its own callbacks    *)
(* make it return, with the sink invoked once per non-null chunk, however  *)
(* many cancellations came before it.                                      *)
(***************************************************************************)
C13_IdleCancelNoEffect ==
    /\ [][(stopCalls' # stopCalls /\ ~StreamActive)
          => UNCHANGED <<pc, call, cell, mutex, handle, fpc, delivered,
                         sinkLog, terminal, result, spurious, cancelAt,
                         crashed>>]_vars
    /\ [](\A t \in Callers :
            (Returned(t) /\ Crossed(t) /\ cancelAt[t] = <<>>)
            => /\ result[t] = OutcomeOf(t)
               /\ call[t].kind = "stream"
                  => sinkLog[t] = TextsOf(NonNull(delivered[t])))

\* Three cancellations with no call in progress, then a stream that ran
\* its course.
C13_Witness ==
    /\ stopCalls = 3 /\ cancelAt[1] = <<>>
    /\ Returned(1) /\ call[1].kind = "stream" /\ EndedBy(1, "done")
    /\ Len(sinkLog[1]) = 2 /\ result[1] = OkUnit

(***************************************************************************)
(* Sessions.  new() asks the foreign side whether the model is available;  *)
(* a session has no fields and clone() copies it without asking.  The      *)
(* foreign side's answer can change at any moment.                         *)
(***************************************************************************)
\* ffi::fm_check_availability()
fm_check_availability == available

\* Fault: the probe's answer is ignored.
NewResultUnchecked(is_available) == OkSession

\* if !is_available { return Err(Error::ModelNotAvailable) }  Ok(Self { .. })
NewResult(is_available) ==
    IF ~is_available THEN ErrModelNotAvailable ELSE OkSession

New ==
    /\ ~crashed
    /\ Len(newCalls) < MaxNewCalls
    /\ Len(sessions) < MaxSessions
    /\ LET is_available == fm_check_availability
           made == NewResult(is_available)
       IN  /\ newCalls' = Append(newCalls, [probe |-> is_available,
                                            result |-> made])
           /\ sessions' = IF made.tag = "Ok"
                          THEN Append(sessions, [probe |-> is_available,
                                                 via |-> "new"])
                          ELSE sessions
    /\ UNCHANGED <<pc, call, cell, mutex, handle, fpc, delivered, sinkLog,
                   terminal, result, spurious, stopCalls, cancelAt, crashed,
                   available, nullContext>>

\* #[derive(Clone)]: the copy is made of the session, not of a new probe.
Clone(i) ==
    /\ ~crashed
    /\ i \in DOMAIN sessions
    /\ Len(sessions) < MaxSessions
    /\ sessions' = Append(sessions, [probe |-> sessions[i].probe,
                                     via |-> "clone"])
    /\ UNCHANGED <<pc, call, cell, mutex, handle, fpc, delivered, sinkLog,
                   terminal, result, spurious, stopCalls, cancelAt, crashed,
                   available, newCalls, nullContext>>

\* The model becomes available or stops being so (a setting toggled).
AvailabilityChanges ==
    /\ ~crashed
    /\ available' = ~available
    /\ UNCHANGED <<pc, call, cell, mutex, handle, fpc, delivered, sinkLog,
                   terminal, result, spurious, stopCalls, cancelAt, crashed,
                   sessions, newCalls, nullContext>>

SessionNext ==
    \/ New
    \/ \E i \in 1..MaxSessions : Clone(i)
    \/ AvailabilityChanges

SessionSpec == Init /\ [][SessionNext]_vars

(***************************************************************************)
(* C14.  Every call of new() returned Ok(session) when the probe answered  *)
(* true at that call and Err(ModelNotAvailable) when it answered false,    *)
(* and nothing else; every session there is, made by new() or copied by    *)
(* clone(), goes back to a new() at which the probe answered true, and     *)
(* new() made as many sessions as it returned Ok.                          *)
(***************************************************************************)
C14_SessionIffProbeTrue ==
    /\ \A i \in DOMAIN newCalls :
        /\ newCalls[i].result = OkSession <=> newCalls[i].probe
        /\ newCalls[i].result = ErrModelNotAvailable <=> ~newCalls[i].probe
    /\ \A i \in DOMAIN sessions : sessions[i].probe
    /\ Len(SelectSeq(sessions, LAMBDA x : x.via = "new"))
       = Len(SelectSeq(newCalls, LAMBDA c : c.result = OkSession))

\* new() failed while the model was unavailable and succeeded once it was
\* available again; a copy was made while it was unavailable.
C14_Witness ==
    /\ Len(newCalls) = 3
    /\ newCalls[2].result = ErrModelNotAvailable
    /\ newCalls[3].result = OkSession
    /\ ~available
    /\ Len(sessions) = 3 /\ sessions[2].via = "clone" /\ sessions[3].via = "new"

(***************************************************************************)
(* C15.  A call the foreign side ended through on_error, whatever the      *)
(* message pointer (null included) and after any number of chunks, has an  *)
(* error recorded in its cell and returns Err, never Ok.                   *)
(***************************************************************************)
C15_OnErrorReturnsErr ==
    \A t \in Callers :
        /\ (EndedBy(t, "error") /\ cell[t].finished) => cell[t].error # <<>>
        /\ (EndedBy(t, "error") /\ Returned(t)) => result[t].tag = "Err"

(***************************************************************************)
(* A poisoned lock.  The Mutex of a cell is poisoned when a thread panics  *)
(* with the guard held; nothing un-poisons it.  From then on lock() and    *)
(* the reacquisition in cvar.wait return Err: the calling thread maps it   *)
(* to Error::PoisonError, the callbacks go past their `if let Ok` block.   *)
(***************************************************************************)
\* A thread took the free lock of the call's cell and panicked holding it.
Poison(t) ==
    /\ ~crashed
    /\ pc[t] \in {"in_ffi", "lock", "waiting", "woken"}
    /\ mutex[t] = "free"
    /\ mutex' = [mutex EXCEPT ![t] = "poisoned"]
    /\ UNCHANGED <<pc, call, cell, handle, fpc, delivered, sinkLog, terminal,
                   result, spurious, stopCalls, cancelAt, crashed>>
    /\ UNCHANGED svars

\* mutex.lock().map_err(|_| Error::PoisonError)?
LockPoisoned(t) ==
    /\ ~crashed
    /\ pc[t] = "lock"
    /\ mutex[t] = "poisoned"
    /\ result' = [result EXCEPT ![t] = ErrPoisonError]
    /\ pc' = [pc EXCEPT ![t] = "returned"]
    /\ UNCHANGED <<call, cell, mutex, handle, fpc, delivered, sinkLog,
                   terminal, spurious, stopCalls, cancelAt, crashed>>
    /\ UNCHANGED svars

\* cvar.wait(..).map_err(|_| Error::PoisonError)?: the wait, once woken,
\* finds the lock poisoned.
WaitPoisoned(t) ==
    /\ ~crashed
    /\ pc[t] = "woken"
    /\ mutex[t] = "poisoned"
    /\ result' = [result EXCEPT ![t] = ErrPoisonError]
    /\ pc' = [pc EXCEPT ![t] = "returned"]
    /\ UNCHANGED <<call, cell, mutex, handle, fpc, delivered, sinkLog,
                   terminal, spurious, stopCalls, cancelAt, crashed>>
    /\ UNCHANGED svars

\* response_callback whose mutex.lock() is Err: the chunk is not appended.
ResponseChunkPoisoned(t, chunk) ==
    /\ Running(t, "response")
    /\ Len(delivered[t]) < MaxChunks
    /\ ~chunk.null
    /\ mutex[t] = "poisoned"
    /\ delivered' = [delivered EXCEPT ![t] = Append(@, chunk)]
    /\ UNCHANGED <<pc, call, cell, mutex, handle, fpc, sinkLog, terminal,
                   result, spurious, stopCalls, cancelAt, crashed>>
    /\ UNCHANGED svars

\* A terminal callback whose mutex.lock() is Err: neither the message nor
\* finished is stored and notify_all is not called; what is left of the
\* callback is the drop at its end.
TerminalPoisoned(t) ==
    /\ ~crashed
    /\ fpc[t] \in {"done_fulfil", "error_fulfil"}
    /\ mutex[t] = "poisoned"
    /\ fpc' = [fpc EXCEPT ![t] = "drop"]
    /\ UNCHANGED <<pc, call, cell, mutex, handle, delivered, sinkLog,
                   terminal, result, spurious, stopCalls, cancelAt, crashed>>
    /\ UNCHANGED svars

PoisonNext ==
    \/ \E t \in Callers : CallerStep(t, LivePromptInputs)
    \/ \E t \in Callers : ForeignStep(t, LiveChunkInputs, LiveErrorInputs)
    \/ \E t \in Callers : Poison(t)
    \/ \E t \in Callers : LockPoisoned(t)
    \/ \E t \in Callers : WaitPoisoned(t)
    \/ \E t \in Callers : \E chunk \in LiveChunkInputs :
                              ResponseChunkPoisoned(t, chunk)
    \/ \E t \in Callers : TerminalPoisoned(t)

PoisonSpec == Init /\ [][PoisonNext]_vars

(***************************************************************************)
(* C16.  When the lock of a call's cell is poisoned, before the calling    *)
(* thread locks it or while the thread is blocked in the wait, the         *)
(* failure is surfaced: a terminal callback that ran to its end has not    *)
(* left the calling thread blocked in the wait, and the call, when it has  *)
(* returned, has returned Err(PoisonError).                                *)
(***************************************************************************)
C16_PoisonSurfaced ==
    \A t \in Callers :
        mutex[t] = "poisoned"
        => /\ fpc[t] \in {"drop", "finished"} => pc[t] # "waiting"
           /\ Returned(t) => result[t] = ErrPoisonError

(***************************************************************************)
(* C17.  The cell of a call gets finished set by the call's terminal       *)
(* callback and by nothing else, once; a cell with finished set does not   *)
(* change again, neither finished nor the text nor the error; so what the  *)
(* calling thread returns is what the cell held when finished was set.     *)
(***************************************************************************)
C17_FinishedOnceThenFrozen ==
    /\ [][\A t \in Callers : cell[t].finished => cell'[t] = cell[t]]_vars
    /\ [][\A t \in Callers :
            (~cell[t].finished /\ cell'[t].finished)
            => /\ Len(terminal[t]) = 1
               /\ fpc[t] \in {"done_fulfil", "error_fulfil"}
               /\ fpc'[t] \in {"drop", "finished"}]_vars
    /\ [](\A t \in Callers :
            /\ cell[t].finished <=> fpc[t] \in {"drop", "finished"}
            /\ (Returned(t) /\ Crossed(t))
               => /\ cell[t].finished
                  /\ result[t].tag = "Err" <=> cell[t].error # <<>>
                  /\ result[t].tag = "Ok" => result[t].text = cell[t].text
                  /\ result[t].kind = "GenerationError"
                     => result[t].msg = cell[t].error[1])

\* A thread that was woken for nothing once, then by the terminal
\* callback, returns the two chunks' text the cell holds.
C17_Witness ==
    /\ Returned(1) /\ call[1].kind = "response" /\ spurious[1] = 1
    /\ cell[1].finished /\ Len(cell[1].text) = 2
    /\ result[1] = OkText(cell[1].text)

(***************************************************************************)
(* C18.  cancel_stream() passes the stop signal on and does nothing else:  *)
(* at a cancellation, with a stream active or not, no cell changes (no     *)
(* finished, no error), no waiting thread is woken or returns, no handle   *)
(* is reclaimed, no lock is taken.  A cancelled streaming call has         *)
(* returned only with finished set by its one terminal callback, and       *)
(* while cancelled without a terminal callback it has not returned.        *)
(***************************************************************************)
C18_CancelIsNoReturnPath ==
    /\ [][stopCalls' # stopCalls
          => /\ stopCalls' = stopCalls + 1
             /\ UNCHANGED <<pc, call, cell, mutex, handle, fpc, delivered,
                            sinkLog, terminal, result, spurious, crashed>>]_vars
    /\ [](\A t \in Callers :
            Cancelled(t)
            => /\ Returned(t)
                  => /\ cell[t].finished
                     /\ Len(terminal[t]) = 1
                     /\ fpc[t] \in {"drop", "finished"}
               /\ terminal[t] = <<>> => ~Returned(t) /\ ~cell[t].finished)

\* Cancelled while the thread was blocked, cancelled twice more, and
\* returned once on_error had set finished.
C18_Witness ==
    /\ Returned(1) /\ Cancelled(1) /\ stopCalls = 3
    /\ EndedBy(1, "error") /\ cell[1].finished /\ cell[1].error # <<>>
    /\ result[1] = ErrModelNotAvailable

(***************************************************************************)
(* C19.  When a call that crossed the boundary has returned, its terminal  *)
(* callback is done with the boundary allocation: the boxed handle, with   *)
(* the sink in it, has been reclaimed and freed, and the foreign thread    *)
(* has neither the handle nor the sink left to touch or to destroy.  (The  *)
(* callback of response() may still hold its own reference to the cell     *)
(* then; the box it was handed is freed before it takes the lock.)         *)
(***************************************************************************)
C19_HandleReleasedBeforeReturn ==
    \A t \in Callers :
        (Returned(t) /\ Crossed(t))
        => /\ handle[t].fromRaw = 1
           /\ handle[t].state = "freed"
           /\ handle[t].frees = 1

(***************************************************************************)
(* Two threads that call at the same time.  Each call's callbacks come     *)
(* with the context pointer of that call; the chunks of the two calls      *)
(* differ, so that a chunk in the wrong place shows.                       *)
(***************************************************************************)
ConcPromptInputs == { <<72, 105>> }

\* "A" for the first call, "B" for the second.
ConcChunkInputs(t) == { CStr(<<64 + t>>) }

ConcErrorInputs == { CStr(Marker) }

ConcNext ==
    \/ \E t \in AllCallers : CallerStep(t, ConcPromptInputs)
    \/ \E t \in AllCallers :
          ForeignStep(t, ConcChunkInputs(t), ConcErrorInputs)

ConcSpec == Init /\ [][ConcNext]_vars

\* What belongs to the call of thread t.
OfCall(t) ==
    <<pc[t], call[t], cell[t], mutex[t], handle[t], fpc[t], delivered[t],
      sinkLog[t], terminal[t], result[t], spurious[t]>>

(***************************************************************************)
(* C20.  Two calls in progress at the same time are isolated: a step of    *)
(* one call (a chunk or terminal callback with its context, a step of its  *)
(* thread) leaves everything of the other call as it was: cell, handle,    *)
(* sink invocations, whether its thread is blocked, its result; each       *)
(* call's text and sink invocations are made of its own chunks, in order,  *)
(* and each call returns what its own callbacks make it return.            *)
(***************************************************************************)
C20_ConcurrentCallsIsolated ==
    /\ [][\A t \in AllCallers : \A u \in AllCallers \ {t} :
            OfCall(t)' # OfCall(t) => OfCall(u)' = OfCall(u)]_vars
    /\ [](\A t \in AllCallers :
            /\ call[t].kind = "response"
               => cell[t].text = Flatten(TextsOf(NonNull(delivered[t])))
            /\ call[t].kind = "stream"
               => sinkLog[t] = TextsOf(NonNull(delivered[t]))
            /\ \A i \in DOMAIN delivered[t] :
                  delivered[t][i] \in ConcChunkInputs(t)
            /\ cell[t].finished => terminal[t] # <<>>
            /\ (Returned(t) /\ Crossed(t)) => result[t] = OutcomeOf(t))

\* The first call is blocked with "AA" accumulated; the second, a stream
\* whose sink got "B", was ended by on_done and has returned.
C20_Witness ==
    /\ call[1].kind = "response" /\ pc[1] = "waiting"
    /\ cell[1].text = <<65, 65>> /\ ~cell[1].finished
    /\ call[2].kind = "stream" /\ Returned(2) /\ EndedBy(2, "done")
    /\ sinkLog[2] = << <<66>> >> /\ result[2] = OkUnit

(***************************************************************************)
(* Chunk callbacks with a null context pointer.  response_callback and     *)
(* stream_chunk_callback return at once when user_data is null, whatever   *)
(* the chunk pointer: no call is reached through it.                       *)
(***************************************************************************)
NullContextChunk(kind, chunk) ==
    /\ ~crashed
    /\ nullContext < MaxNullContext
    /\ nullContext' = nullContext + 1
    /\ UNCHANGED <<pc, call, cell, mutex, handle, fpc, delivered, sinkLog,
                   terminal, result, spurious, stopCalls, cancelAt, crashed,
                   available, sessions, newCalls>>

NullNext ==
    \/ \E t \in Callers : CallerStep(t, LivePromptInputs)
    \/ \E t \in Callers : ForeignStep(t, LiveChunkInputs, LiveErrorInputs)
    \/ \E kind \in {"response", "stream"} : \E chunk \in LiveChunkInputs :
          NullContextChunk(kind, chunk)

NullSpec == Init /\ [][NullNext]_vars

\* The step is a chunk callback of call t with a null chunk pointer.
NullChunkStep(t) ==
    /\ Len(delivered'[t]) = Len(delivered[t]) + 1
    /\ delivered'[t][Len(delivered'[t])].null

(***************************************************************************)
(* C21.  A chunk callback with a null chunk pointer, or with a null        *)
(* context pointer, is ignored: nothing is appended to the text, the sink  *)
(* is not invoked, finished and error stay, the handle is not reclaimed,   *)
(* no thread is woken, nothing is brought down.  The call goes on: its     *)
(* text and its sink invocations are those of its non-null chunks, in      *)
(* order, and it returns what its terminal callback makes it return.       *)
(***************************************************************************)
C21_NullPointersIgnored ==
    /\ [][\A t \in Callers :
            NullChunkStep(t)
            => /\ cell'[t] = cell[t] /\ sinkLog'[t] = sinkLog[t]
               /\ handle'[t] = handle[t] /\ fpc'[t] = fpc[t]
               /\ terminal'[t] = terminal[t]
               /\ pc'[t] = pc[t] /\ result'[t] = result[t]
               /\ crashed' = crashed]_vars
    /\ [][nullContext' # nullContext
          => UNCHANGED <<pc, call, cell, mutex, handle, fpc, delivered,
                         sinkLog, terminal, result, spurious, crashed>>]_vars
    /\ [](\A t \in Callers :
            /\ call[t].kind = "response"
               => cell[t].text = Flatten(TextsOf(NonNull(delivered[t])))
            /\ call[t].kind = "stream"
               => sinkLog[t] = TextsOf(NonNull(delivered[t]))
            /\ (Returned(t) /\ Crossed(t))
               => result[t] = OutcomeOf(t) /\ handle[t].fromRaw = 1)

\* A null chunk, "A", a null chunk, two callbacks with no context, then
\* on_done: the call returns "A".
C21_Witness ==
    /\ Returned(1) /\ call[1].kind = "response" /\ EndedBy(1, "done")
    /\ Len(delivered[1]) = 3
    /\ delivered[1][1].null /\ ~delivered[1][2].null /\ delivered[1][3].null
    /\ nullContext = 2
    /\ result[1] = OkText(<<65>>)

(***************************************************************************)
(* Calls on a session while the availability changes: the session of Init  *)
(* was made with the probe true, and the probe's answer changes at any     *)
(* moment, before a call or during it.                                     *)
(***************************************************************************)
ProbeNext ==
    \/ \E t \in Callers : CallerStep(t, LivePromptInputs)
    \/ \E t \in Callers : ForeignStep(t, LiveChunkInputs, LiveErrorInputs)
    \/ AvailabilityChanges

ProbeSpec == Init /\ [][ProbeNext]_vars

\* The prompt passes the bridge's validation.
ValidPrompt(prompt) ==
    Len(prompt) > 0 /\ \A i \in DOMAIN prompt : prompt[i] # 0

(***************************************************************************)
(* C22.  A call on a session does not depend on the probe: made with a     *)
(* valid prompt it crosses the boundary, with its handle handed over,      *)
(* whatever the probe would answer at that moment; it returns what its     *)
(* callbacks make it return; and it has returned ModelNotAvailable only    *)
(* after crossing the boundary and being ended by on_error with a message  *)
(* that has the marker.                                                    *)
(***************************************************************************)
C22_ProbeNotCached ==
    /\ [][\A t \in Callers :
            (pc[t] = "idle" /\ pc'[t] # "idle" /\ ValidPrompt(call'[t].prompt))
            => /\ pc'[t] = "in_ffi" /\ fpc'[t] = "running"
               /\ handle'[t].intoRaw = 1 /\ handle'[t].state = "foreign"
               /\ result'[t] = NoResult]_vars
    /\ [](\A t \in Callers :
            /\ (Returned(t) /\ Crossed(t)) => result[t] = OutcomeOf(t)
            /\ (Returned(t) /\ result[t].kind = "ModelNotAvailable")
               => /\ Crossed(t) /\ EndedBy(t, "error")
                  /\ ~terminal[t][1].error.null
                  /\ OccursIn(Marker, Lossy(terminal[t][1].error.bytes)))

\* With the model unavailable a stream delivered two chunks to the sink
\* and was ended by on_error("not available").
C22_Witness ==
    /\ ~available
    /\ Returned(1) /\ call[1].kind = "stream" /\ Len(sinkLog[1]) = 2
    /\ EndedBy(1, "error") /\ result[1] = ErrModelNotAvailable

(***************************************************************************)
(* The two bridges side by side: the first thread calls response(), and    *)
(* once it has returned the second calls stream_response(); the foreign    *)
(* side is free in what it delivers to each, so that the two calls get     *)
(* the same prompt and the same callbacks in some runs and different ones  *)
(* in others.                                                              *)
(***************************************************************************)
PairPromptInputs == { <<>>, <<72, 0, 105>>, <<72, 105>> }

PairNext ==
    \/ \E prompt \in PairPromptInputs : ResponseEnter(1, prompt)
    \/ \E prompt \in PairPromptInputs : Returned(1) /\ StreamEnter(2, prompt)
    \/ \E t \in AllCallers : FfiReturn(t)
    \/ \E t \in AllCallers : WaitLock(t)
    \/ \E t \in AllCallers : WaitCheck(t)
    \/ \E t \in AllCallers : WaitReacquire(t)
    \/ \E t \in AllCallers :
          ForeignStep(t, LiveChunkInputs, LiveErrorInputs)

PairSpec == Init /\ [][PairNext]_vars

\* Both calls are over, and they had the same prompt and the same
\* callbacks with the same arguments.
SameRun ==
    /\ Returned(1) /\ call[1].kind = "response"
    /\ Returned(2) /\ call[2].kind = "stream"
    /\ call[1].prompt = call[2].prompt
    /\ delivered[1] = delivered[2]
    /\ terminal[1] = terminal[2]

(***************************************************************************)
(* C23.  A response() call and a stream_response() call with the same      *)
(* prompt and the same callbacks (the same chunks, then on_done, or        *)
(* on_error with the same message) both return Ok or both return Err, and  *)
(* when Err the same kind of error with the same message.                  *)
(***************************************************************************)
C23_BridgesSymmetric ==
    SameRun
    => /\ result[1].tag = result[2].tag
       /\ result[1].tag = "Err"
          => /\ result[1].kind = result[2].kind
             /\ result[1].msg = result[2].msg
             /\ result[1].note = result[2].note

\* Both calls got "A", a null chunk, and on_error("not available"): both
\* return ModelNotAvailable.
C23_Witness ==
    /\ SameRun
    /\ Len(delivered[1]) = 2 /\ ~delivered[1][1].null /\ delivered[1][2].null
    /\ EndedBy(1, "error") /\ terminal[1][1].error = CStr(Marker)
    /\ result[1] = ErrModelNotAvailable /\ result[2] = ErrModelNotAvailable

=============================================================================
